---- MODULE Spec2Model ----
(***************************************************************************)
(* Model of the upload pipeline of src/src/routes/videoRouter.js: the POST *)
(* /upload handler, its background task (process.nextTick callback),       *)
(* createOptimizedVideoChunks, transcribeChunksInParallel, cleanupFiles    *)
(* and uploadToS3 (src/unnamed/part_001).                                  *)
(*                                                                         *)
(* Node runs each callback to completion, so one action is the code that   *)
(* runs between two awaits: it starts where an awaited call returns and    *)
(* ends where the next awaited call is issued.  An external call (ffprobe, *)
(* ffmpeg, speech-to-text, burn-in, S3, the record store, the file system) *)
(* returns "ok" or "fail"; an external tool may also never return          *)
(* ("hang"), because the code passes no timeout to any of them.            *)
(*                                                                         *)
(* Durations are integers in milliseconds; parseFloat's result is a record *)
(* that is either a number or NaN.  A subtitle text is a sequence of       *)
(* lines; adjustSubtitlesTiming and combineSubtitles are computed line by  *)
(* line as the code does, with the timestamp arithmetic in IEEE-754        *)
(* binary64.                                                               *)
(*                                                                         *)
(* Spec is the pipeline of one upload, PlanSpec the chunk plan,            *)
(* ConcurrentSpec two uploads sharing temp/, TextSpec the two subtitle     *)
(* functions on small subtitle files, AdjustSpec the timestamp arithmetic, *)
(* PhaseSpec a batch loop with its limit as an input, and AuthSpec the     *)
(* refresh-token routes of src/src/routes/auth.js.                         *)
(***************************************************************************)
EXTENDS Integers, Sequences, FiniteSets, TLC

(***************************************************************************)
(* Bounds of the model                                                     *)
(***************************************************************************)
\* the longest probed video has this many chunks
MaxChunks == 5
\* at most this many unlink calls of one cleanupFiles call fail
MaxUnlinkFailures == 1
\* ConcurrentSpec: a run has at most this many segments
MaxRunChunks == 2
\* ConcurrentSpec: Date.now() advances at most this many milliseconds
MaxClock == 1
\* AuthSpec: the clock of the token issuer advances at most this many seconds
MaxIssueSeconds == 1
\* TextSpec: at most this many segments are adjusted and combined
MaxSegments == 3
\* PlanSpec: the probed durations run up to this many eighths of the
\* chunk length
MaxDurationSteps == 40

(***************************************************************************)
(* Program constants                                                       *)
(***************************************************************************)
chunkDuration == 60
maxConcurrentChunks == 4
maxConcurrentTranscriptions == 3
MsPerSecond == 1000

ChunkMs == chunkDuration * MsPerSecond

VARIABLES
    hasVideo,        \* req.files.video is present
    hasThumbnail,    \* req.files.thumbnail is present
    response,        \* HTTP status sent to the uploader, "none" before
    db,              \* the persisted Video record
    video,           \* the in-memory Video document of the handler
    pc,              \* position of the handler / background task
    runsStarted,     \* number of times the background callback started
    totalDuration,   \* parseFloat(stdout) of ffprobe
    chunkTasks,      \* planned segments
    batchI,          \* loop variable i of the running batch loop
    ext,             \* processChunk task of each segment
    tr,              \* transcribeChunk task of each segment
    chunks,          \* results pushed by createOptimizedVideoChunks
    transcriptions,  \* results stored by transcribeChunksInParallel
    extLaunched,     \* history: processChunk launches in order
    trLaunched,      \* history: transcribeChunk launches in order
    stageLog,        \* history: pipeline stages in the order they began
    failedStage,     \* history: the stage whose error reached the catch
    phaseError,      \* history: index of the task whose error reached it, or 0
    outOfOrder,      \* history: phases where a task finished before an earlier one
    files,           \* files present in the temp directory
    created,         \* history: files the run has written
    bgTempFiles,     \* the background task's deletion list
    attempted,       \* history: files some unlink call was issued for
    unlinkFailed,    \* history: files whose unlink in cleanupFiles failed
    blobs,           \* objects in the blob store
    runPc,           \* ConcurrentSpec: position of each of two uploads' runs
    runChunks,       \* ConcurrentSpec: number of planned segments of each run
    runCut,          \* ConcurrentSpec: segments whose ffmpeg cut has written
    runAudio,        \* ConcurrentSpec: segments whose audio file is written
    runWritten,      \* ConcurrentSpec history: temp paths each run wrote
    now,             \* ConcurrentSpec: Date.now()
    textPc,          \* TextSpec: "raw", "adjusted" or "merged"
    textIn,          \* TextSpec: the cues of each segment's subtitle file
    textAdjusted,    \* TextSpec: the adjusted text of each segment
    textOut,         \* TextSpec: the combined text
    adjPc,           \* AdjustSpec: "input" or "done"
    adjIn,           \* AdjustSpec: a timestamp and two offsets
    adjOut,          \* AdjustSpec: the timestamp adjusted twice and once
    phase,           \* PhaseSpec: a batch loop run with a given limit
    auth             \* AuthSpec: the refresh-token store of routes/auth.js

vars == <<hasVideo, hasThumbnail, response, db, video, pc, runsStarted,
          totalDuration, chunkTasks, batchI, ext, tr, chunks, transcriptions,
          extLaunched, trLaunched, stageLog, failedStage, phaseError,
          outOfOrder, files, created, bgTempFiles, attempted, unlinkFailed,
          blobs, runPc, runChunks, runCut, runAudio, runWritten, now, textPc,
          textIn, textAdjusted, textOut, adjPc, adjIn, adjOut, phase,
          auth>>

(***************************************************************************)
(* Values                                                                  *)
(***************************************************************************)
Num(v) == [nan |-> FALSE, v |-> v]
NaN == [nan |-> TRUE, v |-> 0]
\* JavaScript a < b for a number a and a parsed value b: false for NaN
LessThan(a, b) == ~b.nan /\ a < b.v

Min(a, b) == IF a < b THEN a ELSE b

File(kind, idx) == [kind |-> kind, idx |-> idx]
videoPath == File("upload", 0)
thumbnailPath == File("thumbnail", 0)
chunkVideoPath(i) == File("chunk.mp4", i)
chunkAudioPath(i) == File("chunk.wav", i)
srtPath(i) == File("chunk.srt", i)
combinedSrtPath == File("combined.srt", 0)
\* path.join(tempDir, `combined-${Date.now()}.srt`)
combinedSrtPathAt(t) == File("combined.srt", t)
\* the upload's stored name: `${fieldname}-${Date.now()}-${random}${ext}`,
\* told apart by the random part
uploadPathOf(r) == File("upload", r)
finalVideoPath == File("final", 0)

NoFile == File("none", 0)
NullUrl == [folder |-> "null", path |-> NoFile]
\* result.Location of an upload of `path` to `folder`
Location(folder, path) == [folder |-> folder, path |-> path]

\* new Video({... videoUrl: null, thumbnailUrl: null, subtitles: '', status: "processing"})
NewVideo ==
    [status |-> "processing", videoUrl |-> NullUrl, thumbnailUrl |-> NullUrl,
     subtitles |-> <<>>]
NoRecord ==
    [status |-> "absent", videoUrl |-> NullUrl, thumbnailUrl |-> NullUrl,
     subtitles |-> <<>>]

Range(s) == {s[k] : k \in DOMAIN s}


(***************************************************************************)
(* Segment planning: the chunkTasks loop of createOptimizedVideoChunks     *)
(***************************************************************************)
RECURSIVE PlanLoop(_, _, _)
PlanLoop(startTime, total, acc) ==
    IF LessThan(startTime, total)
    THEN LET chunkIndex == (startTime \div ChunkMs) + 1
             endTime == Min(startTime + ChunkMs, total.v)
         IN  PlanLoop(startTime + ChunkMs, total,
                      Append(acc, [index |-> chunkIndex,
                                   startTime |-> startTime,
                                   endTime |-> endTime,
                                   duration |-> endTime - startTime]))
    ELSE acc

\* a planner that forgets Math.min on the last segment
PlanChunksNoMin(total) ==
    [k \in 1..Len(PlanLoop(0, total, <<>>)) |->
        [index |-> k, startTime |-> (k - 1) * ChunkMs, endTime |-> k * ChunkMs,
         duration |-> ChunkMs]]

PlanChunks(total) == PlanLoop(0, total, <<>>)

(***************************************************************************)
(* Batches: for (i = 0; i < n; i += limit) { slice(i, i + limit) }         *)
(***************************************************************************)
\* a slice that takes the whole rest of the list
BatchUnbounded(i, limit, n) == (i + 1)..n

\* 1-based positions of list.slice(i, i + limit) in a list of n entries
Batch(i, limit, n) == (i + 1)..Min(i + limit, n)

\* the 1-based position before the batch of task k: the tasks up to it
\* belong to earlier batches
BatchStart(k, limit) == ((k - 1) \div limit) * limit

\* the positions of a set of positions, ascending, as a sequence
RECURSIVE Ascending(_)
Ascending(S) ==
    IF S = {} THEN <<>>
    ELSE LET m == CHOOSE x \in S : \A y \in S : x <= y
         IN  <<m>> \o Ascending(S \ {m})

\* what processChunk returns for a task
ChunkResult(task) ==
    [index |-> task.index, startTime |-> task.startTime, endTime |-> task.endTime,
     videoPath |-> chunkVideoPath(task.index),
     audioPath |-> chunkAudioPath(task.index)]

\* chunks.sort((a, b) => a.index - b.index): insertion into a sorted list
RECURSIVE InsertByIndex(_, _)
InsertByIndex(c, s) ==
    IF s = <<>> THEN <<c>>
    ELSE IF c.index < Head(s).index THEN <<c>> \o s
    ELSE <<Head(s)>> \o InsertByIndex(c, Tail(s))

RECURSIVE SortByIndex(_)
SortByIndex(s) ==
    IF s = <<>> THEN <<>>
    ELSE InsertByIndex(s[Len(s)], SortByIndex(SubSeq(s, 1, Len(s) - 1)))

(***************************************************************************)
(* Numbers of adjustSubtitlesTiming: IEEE-754 binary64, round to nearest,  *)
(* ties to even.  A non-negative double is its integer part and the bits   *)
(* after the binary point; every operation computes the exact result and   *)
(* rounds it to 53 significant bits, as the JavaScript operators do.       *)
(***************************************************************************)
SignificandBits == 53

Double(int, frac) == [int |-> int, frac |-> frac]
ToDouble(n) == Double(n, <<>>)

\* floor(log2(n)) for n >= 1
Log2(n) == CHOOSE e \in 0..30 : n \div (2 ^ e) = 1

\* the positions of the 1 bits
Ones(bits) == {i \in DOMAIN bits : bits[i] = 1}

\* the bits without their trailing zeros
Normal(bits) ==
    IF Ones(bits) = {} THEN <<>>
    ELSE SubSeq(bits, 1, CHOOSE i \in Ones(bits) : \A j \in Ones(bits) : j <= i)

LeadingZeros(bits) ==
    IF Ones(bits) = {} THEN Len(bits)
    ELSE (CHOOSE i \in Ones(bits) : \A j \in Ones(bits) : i <= j) - 1

PadTo(bits, n) == [i \in 1..n |-> IF i <= Len(bits) THEN bits[i] ELSE 0]

\* the carry that the places after place i of x + y send into place i
\* (x and y of one length); place 0 is the integer part
CarryInto(x, y, i) ==
    \E j \in (i + 1)..Len(x) :
        /\ x[j] + y[j] = 2
        /\ \A m \in (i + 1)..(j - 1) : x[m] + y[m] = 1

\* the exact sum a + b
ExactPlus(a, b) ==
    LET n == IF Len(a.frac) > Len(b.frac) THEN Len(a.frac) ELSE Len(b.frac)
        x == PadTo(a.frac, n)
        y == PadTo(b.frac, n)
    IN  Double(a.int + b.int + (IF CarryInto(x, y, 0) THEN 1 ELSE 0),
               [i \in 1..n |->
                   (x[i] + y[i] + (IF CarryInto(x, y, i) THEN 1 ELSE 0)) % 2])

\* the double nearest to the exact value int + 0.frac
RoundToDouble(int, frac) ==
    LET kept == IF int > 0 THEN SignificandBits - 1 - Log2(int)
                ELSE LeadingZeros(frac) + SignificandBits
    IN  IF Len(frac) <= kept THEN Double(int, Normal(frac))
        ELSE LET head == SubSeq(frac, 1, kept)
                 sticky == \E i \in (kept + 2)..Len(frac) : frac[i] = 1
                 odd == IF kept = 0 THEN int % 2 = 1 ELSE head[kept] = 1
                 ulp == [i \in 1..kept |-> IF i = kept THEN 1 ELSE 0]
                 up == ExactPlus(Double(int, head),
                                 IF kept = 0 THEN ToDouble(1) ELSE Double(0, ulp))
             IN  IF frac[kept + 1] = 1 /\ (sticky \/ odd)
                 THEN Double(up.int, Normal(up.frac))
                 ELSE Double(int, Normal(head))

\* a + b
Plus(a, b) ==
    LET sum == ExactPlus(a, b)
    IN  RoundToDouble(sum.int, sum.frac)

\* 2^e modulo den, by squaring
RECURSIVE PowerOfTwoMod(_, _)
PowerOfTwoMod(e, den) ==
    IF e = 0 THEN 1 % den
    ELSE LET h == PowerOfTwoMod(e \div 2, den)
         IN  (((h * h) % den) * (IF e % 2 = 1 THEN 2 ELSE 1)) % den

\* num / den for integers 0 <= num, 0 < den: the bits of the quotient up
\* to the rounding place, and one bit that tells whether a remainder is left
Divide(num, den) ==
    LET rem == num % den
        count == SignificandBits + Log2(den) + 2
        \* what is left of rem / den after i bits, times den
        left(i) == (rem * PowerOfTwoMod(i, den)) % den
    IN  IF rem = 0 THEN ToDouble(num \div den)
        ELSE RoundToDouble(num \div den,
                           [i \in 1..(count + 1) |->
                               IF i <= count THEN (2 * left(i - 1)) \div den
                               ELSE IF left(count) # 0 THEN 1 ELSE 0])

\* the integer that the bits spell
RECURSIVE BitsValue(_)
BitsValue(bits) ==
    IF bits = <<>> THEN 0
    ELSE 2 * BitsValue(SubSeq(bits, 1, Len(bits) - 1)) + bits[Len(bits)]

\* a * 2^s, exact, for a < 1
ShiftLeft(a, s) ==
    Double(BitsValue(SubSeq(PadTo(a.frac, s), 1, s)),
           SubSeq(a.frac, s + 1, Len(a.frac)))

\* the sum of a * 2^s over the s in shifts, exact
RECURSIVE SumOfShifts(_, _)
SumOfShifts(a, shifts) ==
    IF shifts = {} THEN ToDouble(0)
    ELSE LET s == CHOOSE x \in shifts : TRUE
         IN  ExactPlus(ShiftLeft(a, s), SumOfShifts(a, shifts \ {s}))

\* a * k for a < 1 and an integer k >= 1: k is the sum of its powers of two
Times(a, k) ==
    LET product == SumOfShifts(a, {s \in 0..Log2(k) : (k \div (2 ^ s)) % 2 = 1})
    IN  RoundToDouble(product.int, product.frac)

\* a % 1: exact
FractionOf(a) == Double(0, a.frac)

\* the bits of 1 - 0.frac for bits with a 1: those before the last 1 are
\* inverted
OneMinus(frac) ==
    [i \in 1..Len(Normal(frac)) |->
        IF i < Len(Normal(frac)) THEN 1 - frac[i] ELSE 1]

\* k - a for an integer k > a
Minus(k, a) ==
    IF Ones(a.frac) = {} THEN ToDouble(k - a.int)
    ELSE RoundToDouble(k - a.int - 1, OneMinus(a.frac))

\* -Math.floor(-a): the least integer that is not below a
Ceiling(a) == a.int + (IF Ones(a.frac) = {} THEN 0 ELSE 1)

(***************************************************************************)
(* Subtitle texts.  A text is the sequence of its lines (split('\n')); the *)
(* empty string is the empty sequence.  A line is what the regular         *)
(* expressions of adjustSubtitlesTiming and combineSubtitles see in it:    *)
(*   "digits"  only digits (/^\d+$/), the number n                         *)
(*   "time"    contains HH:MM:SS,mmm --> HH:MM:SS,mmm; `text` is what      *)
(*             surrounds the match, "" for a plain timestamp line          *)
(*   "text"    any other non-blank line                                    *)
(*   "blank"   nothing but white space                                     *)
(* and `pad` tells that it begins or ends with white space.                *)
(***************************************************************************)
Time(h, m, s, ms) == [h |-> h, m |-> m, s |-> s, ms |-> ms]
NoTime == Time(0, 0, 0, 0)
Line(kind, n, start, end, text, pad) ==
    [kind |-> kind, n |-> n, start |-> start, end |-> end, text |-> text,
     pad |-> pad]
IndexLine(n) == Line("digits", n, NoTime, NoTime, "", FALSE)
TimestampLine(start, end) == Line("time", 0, start, end, "", FALSE)
TextLine(t) == Line("text", 0, NoTime, NoTime, t, FALSE)
BlankLine == Line("blank", 0, NoTime, NoTime, "", FALSE)

\* text.split('\n') and lines.join('\n')
Split(text) == IF text = <<>> THEN <<BlankLine>> ELSE text
Join(lines) == IF lines = <<BlankLine>> THEN <<>> ELSE lines

SecondsPerMinute == 60
SecondsPerHour == 3600

\* lines 384-403: one timestamp moved by offsetSeconds (a double)
AdjustTime(t, offsetSeconds) ==
    LET totalSeconds ==
            Plus(ToDouble(t.h * SecondsPerHour + t.m * SecondsPerMinute + t.s),
                 Divide(t.ms, MsPerSecond))
        newTotalSeconds == Plus(totalSeconds, offsetSeconds)
    IN  Time(newTotalSeconds.int \div SecondsPerHour,
             (newTotalSeconds.int % SecondsPerHour) \div SecondsPerMinute,
             newTotalSeconds.int % SecondsPerMinute,
             Times(FractionOf(newTotalSeconds), MsPerSecond).int)

\* lines 384-403 for offsetSeconds = -k, k a whole number of seconds.  A
\* sum below zero is -v for the double v = k - totalSeconds, and
\* Math.floor(-x) is -ceil(x); % keeps the sign of -v and is exact.  v is
\* whole or at least a thousandth away from a whole number, so the
\* rounding of v / 3600 and of (v % 3600) / 60 never crosses an integer.
AdjustTimeBack(t, k) ==
    LET totalSeconds ==
            Plus(ToDouble(t.h * SecondsPerHour + t.m * SecondsPerMinute + t.s),
                 Divide(t.ms, MsPerSecond))
        v == Minus(k, totalSeconds)
        quotient(a, d) ==
            Double(a.int \div d, IF a.int % d = 0 THEN a.frac ELSE <<1>>)
        remainder(a, d) == Double(a.int % d, a.frac)
    IN  IF totalSeconds.int >= k
        THEN Time((totalSeconds.int - k) \div SecondsPerHour,
                  ((totalSeconds.int - k) % SecondsPerHour) \div SecondsPerMinute,
                  (totalSeconds.int - k) % SecondsPerMinute,
                  Times(FractionOf(totalSeconds), MsPerSecond).int)
        ELSE Time(0 - Ceiling(quotient(v, SecondsPerHour)),
                  0 - Ceiling(quotient(remainder(v, SecondsPerHour),
                                       SecondsPerMinute)),
                  0 - Ceiling(remainder(v, SecondsPerMinute)),
                  0 - Ceiling(Times(FractionOf(v), MsPerSecond)))

\* lines 361-412
adjustSubtitlesTiming(srtContent, offsetSeconds) ==
    LET lines == Split(srtContent)
    IN  Join([i \in 1..Len(lines) |->
                 IF lines[i].kind = "time"
                 THEN TimestampLine(AdjustTime(lines[i].start, offsetSeconds),
                                    AdjustTime(lines[i].end, offsetSeconds))
                 ELSE lines[i]])

\* line.trim()
Trim(line) == [line EXCEPT !.pad = FALSE]

\* lines 419-438: the lines of the texts from line i of text j on,
\* appended to combinedSrt
RECURSIVE CombineFrom(_, _, _, _, _)
CombineFrom(texts, j, i, subtitleIndex, combinedSrt) ==
    IF j > Len(texts) THEN combinedSrt
    ELSE LET lines == Split(texts[j])
         IN  IF i > Len(lines)
             THEN CombineFrom(texts, j + 1, 1, subtitleIndex, combinedSrt)
             ELSE LET line == Trim(lines[i])
                  IN  IF line.kind = "digits"
                      THEN CombineFrom(texts, j, i + 1, subtitleIndex + 1,
                                       Append(combinedSrt, IndexLine(subtitleIndex)))
                      ELSE CombineFrom(texts, j, i + 1, subtitleIndex,
                                       Append(combinedSrt, line))

\* combinedSrt.trim(): every line is trimmed and ends with '\n', so the
\* blank lines at both ends go
RECURSIVE TrimText(_)
TrimText(lines) ==
    IF lines = <<>> THEN <<>>
    ELSE IF Head(lines).kind = "blank" THEN TrimText(Tail(lines))
    ELSE IF lines[Len(lines)].kind = "blank"
         THEN TrimText(SubSeq(lines, 1, Len(lines) - 1))
    ELSE lines

\* a merge that ends at the first empty text
combineSubtitlesUntilEmpty(texts) ==
    LET empty == {j \in DOMAIN texts : texts[j] = <<>>}
        last == IF empty = {} THEN Len(texts)
                ELSE (CHOOSE j \in empty : \A m \in empty : j <= m) - 1
    IN  TrimText(CombineFrom(SubSeq(texts, 1, last), 1, 1, 1, <<>>))

\* lines 415-443
combineSubtitles(texts) ==
    TrimText(CombineFrom(texts, 1, 1, 1, <<>>))

\* a cue of a segment's subtitle file; a malformed cue has a timestamp line
\* without milliseconds, which no regular expression of the code matches
Cue(index, start, end, text, wellFormed) ==
    [index |-> index, start |-> start, end |-> end, text |-> text,
     wellFormed |-> wellFormed]

RECURSIVE CueLines(_)
CueLines(cues) ==
    IF cues = <<>> THEN <<>>
    ELSE LET c == Head(cues)
         IN  <<IndexLine(c.index),
               IF c.wellFormed THEN TimestampLine(c.start, c.end)
               ELSE TextLine("00:00:01 --> 00:00:02")>>
             \o c.text \o <<BlankLine>> \o CueLines(Tail(cues))

\* the subtitle file of a segment with these cues: every line ends with
\* '\n', so one empty piece follows the last; no cue gives the empty file
SrtText(cues) == Join(CueLines(cues) \o <<BlankLine>>)

\* the file the speech-to-text tool writes for a chunk
WhisperText(chunk) ==
    SrtText(<<Cue(1, Time(0, 0, 0, 0), Time(0, 0, 2, 0), <<TextLine("Hi")>>, TRUE)>>)

\* what transcribeChunk returns: the chunk's text, its timestamps moved by
\* chunk.startTime (adjustSubtitlesTiming(subtitleText, chunk.startTime))
Adjusted(chunk) ==
    adjustSubtitlesTiming(WhisperText(chunk),
                          ToDouble(chunk.startTime \div MsPerSecond))
\* an entry of new Array(chunks.length) that is not stored yet
Undefined == <<Line("undefined", 0, NoTime, NoTime, "", FALSE)>>

(***************************************************************************)
(* cleanupFiles                                                            *)
(***************************************************************************)
\* the sets of files of `list` whose unlink may fail: a missing file
\* always fails (ENOENT), an existing one may
UnlinkFailures(list) ==
    {F \in SUBSET Range(list) :
        /\ Range(list) \ files \subseteq F
        /\ Cardinality(F \cap files) <= MaxUnlinkFailures}

\* a cleanupFiles without the .catch(() => {}) and the try/catch
cleanupFilesRethrows(F) == F # {}

\* whether cleanupFiles throws when the unlink calls of F fail: every
\* rejection is swallowed by .catch(() => {})
cleanupFilesThrows(F) == FALSE

\* a cleanupFiles that awaits the unlink calls one by one and stops at the
\* first that fails
cleanupFilesSequential(list, F) ==
    LET bad == {j \in DOMAIN list : list[j] \in F}
        stop == IF bad = {} THEN Len(list)
                ELSE CHOOSE j \in bad : \A i \in bad : j <= i
        tried == {list[j] : j \in 1..stop}
    IN  /\ files' = files \ (tried \ F)
        /\ attempted' = attempted \cup tried
        /\ unlinkFailed' = unlinkFailed \cup (F \cap files \cap tried)

\* the effect of the unlink calls of cleanupFiles(list) when those of F
\* fail: files.map issues every unlink before any of them returns
cleanupFiles(list, F) ==
    /\ files' = files \ (Range(list) \ F)
    /\ attempted' = attempted \cup Range(list)
    /\ unlinkFailed' = unlinkFailed \cup (F \cap files)


(***************************************************************************)
(* Outcomes of external calls                                              *)
(***************************************************************************)
\* an external tool run through exec, or an S3 call: no timeout is passed
ToolOutcomes == {"ok", "fail", "hang"}
\* a record-store or file-system call
CallOutcomes == {"ok", "fail"}
\* a call that reads `inputs` cannot succeed when one of them is missing
Possible(outcome, inputs) == outcome = "ok" => inputs \subseteq files

\* what ffprobe's stdout parses to: not a number, zero, the spec's 150 s
\* example, and the longest video, which ends half a second into its last
\* chunk
ProbeOutputs ==
    {NaN, Num(0), Num(150 * MsPerSecond),
     Num((MaxChunks - 1) * ChunkMs + MsPerSecond \div 2)}

NumChunks == Len(chunkTasks)

(***************************************************************************)
(* State after the upload middleware stored the request's files            *)
(***************************************************************************)
\* two uploads handled by one server process
Runs == {1, 2}

IdleRun ==
    /\ response = "none"
    /\ db = NoRecord
    /\ video = NoRecord
    /\ runsStarted = 0
    /\ chunkTasks = <<>>
    /\ batchI = 0
    /\ ext = <<>>
    /\ tr = <<>>
    /\ chunks = <<>>
    /\ transcriptions = <<>>
    /\ extLaunched = <<>>
    /\ trLaunched = <<>>
    /\ stageLog = <<>>
    /\ failedStage = "none"
    /\ phaseError = 0
    /\ outOfOrder = {}
    /\ created = {}
    /\ bgTempFiles = <<>>
    /\ attempted = {}
    /\ unlinkFailed = {}
    /\ blobs = {}
    /\ runPc = [r \in Runs |-> "idle"]
    /\ runChunks = [r \in Runs |-> 0]
    /\ runCut = [r \in Runs |-> {}]
    /\ runAudio = [r \in Runs |-> {}]
    /\ runWritten = [r \in Runs |-> {}]
    /\ now = 0

\* nothing is adjusted or combined outside the pipeline
IdleText ==
    /\ textPc = "idle"
    /\ textIn = <<>>
    /\ textAdjusted = <<>>
    /\ textOut = <<>>

IdleAdjust ==
    /\ adjPc = "idle"
    /\ adjIn = [t |-> NoTime, d1 |-> ToDouble(0), d2 |-> ToDouble(0), back |-> 0]
    /\ adjOut = [twice |-> NoTime, once |-> NoTime, backward |-> NoTime]

(***************************************************************************)
(* Refresh tokens (routes/auth.js).  A token is what jwt.sign makes of its *)
(* payload and the secret: two tokens for one user issued in one second    *)
(* (iat) are the same string; a token not signed with the server's secret  *)
(* is a different string.                                                  *)
(***************************************************************************)
\* two users sign up or log in
Users == {1, 2}
SignedToken(userId, iat) == [userId |-> userId, iat |-> iat, signed |-> TRUE]
\* a token that jwt.verify rejects
ForgedToken == [userId |-> 1, iat |-> 0, signed |-> FALSE]
\* req.body.refreshToken is missing
NoToken == [userId |-> 0, iat |-> 0, signed |-> FALSE]
\* what a request can carry as refreshToken
RequestTokens ==
    {SignedToken(userId, iat) : userId \in Users, iat \in 0..MaxIssueSeconds}
        \cup {ForgedToken, NoToken}

\* const refreshTokens = new Set(): the module is loaded; lastEvent is the
\* history of each token, response the last response sent
IdleAuth ==
    auth = [refreshTokens |-> {}, clock |-> 0,
            lastEvent |-> [t \in RequestTokens |-> "never"],
            response |-> [op |-> "none", token |-> NoToken, status |-> "none"]]

\* no batch loop runs outside the pipeline
IdlePhase ==
    phase = [pc |-> "idle", limit |-> 0, i |-> 0, task |-> <<>>,
             launched |-> <<>>, results |-> <<>>, error |-> 0]

Init ==
    /\ hasVideo \in BOOLEAN
    /\ hasThumbnail \in BOOLEAN
    /\ pc = "handler"
    /\ totalDuration = NaN
    /\ files = (IF hasVideo THEN {videoPath} ELSE {})
                 \cup (IF hasThumbnail THEN {thumbnailPath} ELSE {})
    /\ IdleRun
    /\ IdlePhase
    /\ IdleAuth
    /\ IdleText
    /\ IdleAdjust

runVars == <<runPc, runChunks, runCut, runAudio, runWritten, now>>
textVars == <<textPc, textIn, textAdjusted, textOut>>
adjustVars == <<adjPc, adjIn, adjOut>>
\* the request, and the variables no step of the single upload changes
requestVars == <<hasVideo, hasThumbnail, runVars, textVars, adjustVars, phase,
                 auth>>
planVars == <<totalDuration, chunkTasks>>
taskVars == <<batchI, ext, tr, chunks, transcriptions, extLaunched, trLaunched>>
orderVars == <<phaseError, outOfOrder>>
fileVars == <<files, created, bgTempFiles, attempted, unlinkFailed>>

(***************************************************************************)
(* The catch block of the background task: video.status = "failed" and    *)
(* video.save() is issued                                                  *)
(***************************************************************************)
EnterCatch(stage) ==
    /\ video' = [video EXCEPT !.status = "failed"]
    /\ pc' = "saveFailed"
    /\ failedStage' = stage

(***************************************************************************)
(* POST /upload handler                                                    *)
(***************************************************************************)
\* lines 127-162: validate, build the document, issue video.save()
HandlerStart ==
    /\ pc = "handler"
    /\ IF ~hasVideo
       THEN /\ response' = "400"
            /\ pc' = "ended"
            /\ UNCHANGED video
       ELSE /\ video' = NewVideo
            /\ pc' = "saveInitial"
            /\ UNCHANGED response
    /\ UNCHANGED <<requestVars, orderVars, db, runsStarted, planVars, taskVars, stageLog,
                   failedStage, fileVars, blobs>>

\* a handler that runs the pipeline before it answers: the response is
\* sent by the code that ends the run
InitialSaveReturnsAwaiting ==
    /\ pc = "saveInitial"
    /\ \E outcome \in CallOutcomes :
          IF outcome = "ok"
          THEN /\ db' = video
               /\ pc' = "scheduled"
          ELSE /\ pc' = "handlerCleanup"
               /\ UNCHANGED db
    /\ UNCHANGED <<requestVars, orderVars, response, video, runsStarted, planVars, taskVars,
                   stageLog, failedStage, fileVars, blobs>>

\* lines 162-175 and 239-241: video.save() returns; on success the 202
\* is sent and the background callback is queued, on failure the outer
\* catch issues cleanupFiles(tempFiles)
InitialSaveReturns ==
    /\ pc = "saveInitial"
    /\ \E outcome \in CallOutcomes :
          IF outcome = "ok"
          THEN /\ db' = video
               /\ response' = "202"
               /\ pc' = "scheduled"
          ELSE /\ pc' = "handlerCleanup"
               /\ UNCHANGED <<db, response>>
    /\ UNCHANGED <<requestVars, orderVars, video, runsStarted, planVars, taskVars, stageLog,
                   failedStage, fileVars, blobs>>

\* lines 241-245: cleanupFiles(tempFiles) returns, the 500 is sent
HandlerCleanupReturns ==
    /\ pc = "handlerCleanup"
    /\ \E F \in UnlinkFailures(<<videoPath>>) :
          /\ cleanupFiles(<<videoPath>>, F)
          /\ IF cleanupFilesThrows(F)
             THEN /\ pc' = "rejected"
                  /\ UNCHANGED response
             ELSE /\ pc' = "ended"
                  /\ response' = "500"
    /\ UNCHANGED <<requestVars, orderVars, db, video, runsStarted, planVars, taskVars,
                   stageLog, failedStage, created, bgTempFiles, blobs>>

(***************************************************************************)
(* Background task                                                         *)
(***************************************************************************)
\* lines 175-182 and 258: the queued callback runs and issues ffprobe
BackgroundStart ==
    /\ pc = "scheduled"
    /\ pc' = "probe"
    /\ runsStarted' = runsStarted + 1
    /\ bgTempFiles' = <<videoPath>>
    /\ UNCHANGED <<requestVars, orderVars, response, db, video, planVars, taskVars, stageLog,
                   failedStage, files, created, attempted, unlinkFailed, blobs>>

\* the state of the processChunk tasks after the batch at i is launched
LaunchedExt(e, i, n) ==
    [k \in 1..n |-> IF k \in Batch(i, maxConcurrentChunks, n) THEN "cut" ELSE e[k]]

\* the state of the transcribeChunk tasks after the batch at i is launched
LaunchedTr(t, i, n) ==
    [k \in 1..n |->
        IF k \in Batch(i, maxConcurrentTranscriptions, n) THEN "whisper" ELSE t[k]]

\* lines 258-302: ffprobe returns; the duration is parsed, the segments
\* are planned and the first batch of processChunk tasks is launched
ProbeReturns ==
    /\ pc = "probe"
    /\ \E outcome \in ToolOutcomes :
          /\ Possible(outcome, {videoPath})
          /\ CASE outcome = "ok" ->
                    \E d \in ProbeOutputs :
                       LET tasks == PlanChunks(d)
                           n == Len(tasks)
                       IN  /\ totalDuration' = d
                           /\ chunkTasks' = tasks
                           /\ batchI' = 0
                           /\ ext' = LaunchedExt([k \in 1..n |-> "idle"], 0, n)
                           /\ tr' = [k \in 1..n |-> "idle"]
                           /\ extLaunched' =
                                 Ascending(Batch(0, maxConcurrentChunks, n))
                           /\ stageLog' = stageLog \o <<"plan", "extract">>
                           /\ pc' = "extract"
                           /\ UNCHANGED <<video, failedStage, chunks, transcriptions,
                                         trLaunched>>
               [] outcome = "fail" ->
                    /\ EnterCatch("probe")
                    /\ UNCHANGED <<planVars, taskVars, stageLog>>
               [] outcome = "hang" ->
                    /\ pc' = "hung"
                    /\ UNCHANGED <<video, failedStage, planVars, taskVars, stageLog>>
    /\ UNCHANGED <<requestVars, orderVars, response, db, runsStarted, fileVars, blobs>>


(***************************************************************************)
(* createOptimizedVideoChunks: processChunk tasks and the batch loop       *)
(***************************************************************************)
\* a processChunk task whose rejection also stops the other tasks of its
\* batch
ExtTaskFailsCancelling(k) ==
    /\ ext' = [j \in DOMAIN ext |->
                  IF j = k THEN "failed"
                  ELSE IF ext[j] \in {"cut", "audio"} THEN "cancelled" ELSE ext[j]]
    /\ IF pc = "extract"
       THEN /\ EnterCatch("extract")
            /\ phaseError' = chunkTasks[k].index
       ELSE UNCHANGED <<video, pc, failedStage, phaseError>>

\* a processChunk task rejects: Promise.all of the batch rejects with it if
\* the background task still awaits the batch, and the error reaches the
\* catch block (lines 309-311, 232-235); a later rejection is dropped
ExtTaskFails(k) ==
    /\ ext' = [ext EXCEPT ![k] = "failed"]
    /\ IF pc = "extract"
       THEN /\ EnterCatch("extract")
            /\ phaseError' = chunkTasks[k].index
       ELSE UNCHANGED <<video, pc, failedStage, phaseError>>

\* the tasks of the batch of task k that are launched before k and have
\* not returned when k returns
EarlierUnsettled(state, k, limit) ==
    {j \in DOMAIN state :
        /\ j < k
        /\ (j - 1) \div limit = (k - 1) \div limit
        /\ state[j] \notin {"done", "failed"}}

\* line 285: the ffmpeg cut of segment k returns; line 288 issues the
\* audio extraction
ExtCutReturns(k) ==
    /\ ext[k] = "cut"
    /\ \E outcome \in ToolOutcomes :
          /\ Possible(outcome, {videoPath})
          /\ CASE outcome = "ok" ->
                    /\ ext' = [ext EXCEPT ![k] = "audio"]
                    /\ files' = files \cup {chunkVideoPath(chunkTasks[k].index)}
                    /\ created' = created \cup {chunkVideoPath(chunkTasks[k].index)}
                    /\ UNCHANGED <<video, pc, failedStage, phaseError>>
               [] outcome = "fail" ->
                    /\ ExtTaskFails(k)
                    /\ UNCHANGED <<files, created>>
               [] outcome = "hang" ->
                    /\ ext' = [ext EXCEPT ![k] = "hung"]
                    /\ UNCHANGED <<video, pc, failedStage, phaseError, files,
                                   created>>
    /\ UNCHANGED <<requestVars, response, db, runsStarted, planVars, batchI, tr,
                   chunks, transcriptions, extLaunched, trLaunched, stageLog,
                   outOfOrder, bgTempFiles, attempted, unlinkFailed, blobs>>

\* line 288: the audio extraction of segment k returns; processChunk
\* returns its result (lines 290-296)
ExtAudioReturns(k) ==
    /\ ext[k] = "audio"
    /\ \E outcome \in ToolOutcomes :
          /\ Possible(outcome, {chunkVideoPath(chunkTasks[k].index)})
          /\ CASE outcome = "ok" ->
                    /\ ext' = [ext EXCEPT ![k] = "done"]
                    /\ files' = files \cup {chunkAudioPath(chunkTasks[k].index)}
                    /\ created' = created \cup {chunkAudioPath(chunkTasks[k].index)}
                    /\ outOfOrder' =
                          IF EarlierUnsettled(ext, k, maxConcurrentChunks) # {}
                          THEN outOfOrder \cup {"extract"} ELSE outOfOrder
                    /\ UNCHANGED <<video, pc, failedStage, phaseError>>
               [] outcome = "fail" ->
                    /\ ExtTaskFails(k)
                    /\ UNCHANGED <<files, created, outOfOrder>>
               [] outcome = "hang" ->
                    /\ ext' = [ext EXCEPT ![k] = "hung"]
                    /\ UNCHANGED <<video, pc, failedStage, phaseError, files,
                                   created, outOfOrder>>
    /\ UNCHANGED <<requestVars, response, db, runsStarted, planVars, batchI, tr,
                   chunks, transcriptions, extLaunched, trLaunched, stageLog,
                   bgTempFiles, attempted, unlinkFailed, blobs>>

\* a batch loop that goes on as soon as one task of the batch is done
\* (Promise.race in place of Promise.all)
ExtBatchSettledAny(i, n) ==
    \E k \in Batch(i, maxConcurrentChunks, n) : ext[k] = "done"

\* Promise.all(batch.map(processChunk)) is fulfilled: every task is done
ExtBatchSettled(i, n) ==
    \A k \in Batch(i, maxConcurrentChunks, n) : ext[k] = "done"

\* lines 300-306: the awaited batch is fulfilled; its results are pushed
\* and the loop launches the next batch, if any
ExtractBatchDone ==
    /\ pc = "extract"
    /\ batchI < NumChunks
    /\ ExtBatchSettled(batchI, NumChunks)
    /\ LET batch == Ascending(Batch(batchI, maxConcurrentChunks, NumChunks))
           next == batchI + maxConcurrentChunks
       IN  /\ chunks' = chunks \o [j \in 1..Len(batch) |->
                                      ChunkResult(chunkTasks[batch[j]])]
           /\ batchI' = next
           /\ ext' = LaunchedExt(ext, next, NumChunks)
           /\ extLaunched' = extLaunched \o
                 Ascending(Batch(next, maxConcurrentChunks, NumChunks))
    /\ UNCHANGED <<requestVars, orderVars, response, db, video, pc, runsStarted, planVars, tr,
                   transcriptions, trLaunched, stageLog, failedStage, fileVars,
                   blobs>>

\* lines 308, 183-189, 317-347: the loop is over; the sorted chunks are
\* returned, their files are pushed to bgTempFiles and the first batch of
\* transcribeChunk tasks is launched
ExtractReturns ==
    /\ pc = "extract"
    /\ ~(batchI < NumChunks)
    /\ LET sorted == SortByIndex(chunks)
           n == Len(sorted)
       IN  /\ chunks' = sorted
           /\ bgTempFiles' = bgTempFiles
                 \o [j \in 1..n |-> sorted[j].videoPath]
                 \o [j \in 1..n |-> sorted[j].audioPath]
           /\ transcriptions' = [j \in 1..n |-> Undefined]
           /\ batchI' = 0
           /\ tr' = LaunchedTr(tr, 0, n)
           /\ trLaunched' = Ascending(Batch(0, maxConcurrentTranscriptions, n))
    /\ stageLog' = Append(stageLog, "transcribe")
    /\ pc' = "transcribe"
    /\ UNCHANGED <<requestVars, orderVars, response, db, video, runsStarted, planVars, ext,
                   extLaunched, failedStage, files, created, attempted,
                   unlinkFailed, blobs>>


(***************************************************************************)
(* transcribeChunksInParallel: transcribeChunk tasks and the batch loop    *)
(***************************************************************************)
\* lines 334-337, 347, 232-235: a transcribeChunk task rejects
TrTaskFails(k) ==
    /\ tr' = [tr EXCEPT ![k] = "failed"]
    /\ IF pc = "transcribe"
       THEN /\ EnterCatch("transcribe")
            /\ phaseError' = chunks[k].index
       ELSE UNCHANGED <<video, pc, failedStage, phaseError>>

\* line 326: the speech-to-text tool returns the path of the subtitle
\* file it wrote for chunks[k]; line 327 issues readFile
TrWhisperReturns(k) ==
    /\ tr[k] = "whisper"
    /\ \E outcome \in ToolOutcomes :
          /\ Possible(outcome, {chunks[k].audioPath})
          /\ CASE outcome = "ok" ->
                    /\ tr' = [tr EXCEPT ![k] = "read"]
                    /\ files' = files \cup {srtPath(chunks[k].index)}
                    /\ created' = created \cup {srtPath(chunks[k].index)}
                    /\ UNCHANGED <<video, pc, failedStage, phaseError>>
               [] outcome = "fail" ->
                    /\ TrTaskFails(k)
                    /\ UNCHANGED <<files, created>>
               [] outcome = "hang" ->
                    /\ tr' = [tr EXCEPT ![k] = "hung"]
                    /\ UNCHANGED <<video, pc, failedStage, phaseError, files,
                                   created>>
    /\ UNCHANGED <<requestVars, response, db, runsStarted, planVars, batchI, ext,
                   chunks, transcriptions, extLaunched, trLaunched, stageLog,
                   outOfOrder, bgTempFiles, attempted, unlinkFailed, blobs>>

\* lines 327-333: readFile returns; the timestamps are adjusted and the
\* task returns the adjusted text
TrReadReturns(k) ==
    /\ tr[k] = "read"
    /\ \E outcome \in CallOutcomes :
          /\ Possible(outcome, {srtPath(chunks[k].index)})
          /\ IF outcome = "ok"
             THEN /\ tr' = [tr EXCEPT ![k] = "done"]
                  /\ outOfOrder' =
                        IF EarlierUnsettled(tr, k, maxConcurrentTranscriptions) # {}
                        THEN outOfOrder \cup {"transcribe"} ELSE outOfOrder
                  /\ UNCHANGED <<video, pc, failedStage, phaseError>>
             ELSE /\ TrTaskFails(k)
                  /\ UNCHANGED outOfOrder
    /\ UNCHANGED <<requestVars, response, db, runsStarted, planVars, batchI, ext,
                   chunks, transcriptions, extLaunched, trLaunched, stageLog,
                   fileVars, blobs>>

\* a batch loop that goes on as soon as one task of the batch is done
TrBatchSettledAny(i, n) ==
    \E k \in Batch(i, maxConcurrentTranscriptions, n) : tr[k] = "done"

\* Promise.all(batchPromises) is fulfilled: every task is done
TrBatchSettled(i, n) ==
    \A k \in Batch(i, maxConcurrentTranscriptions, n) : tr[k] = "done"

\* a store that forgets the batch's start i
ResultPositionInBatch(i, batchIndex) == batchIndex

\* line 346: transcriptions[i + batchIndex], as a 1-based position, for
\* the 1-based batchIndex of a result in batchResults
ResultPosition(i, batchIndex) == i + batchIndex

\* lines 341-355: the awaited batch is fulfilled; its results, which
\* Promise.all lists in the order of batchPromises, are stored at their
\* positions and the loop launches the next batch, if any
TranscribeBatchDone ==
    /\ pc = "transcribe"
    /\ batchI < Len(chunks)
    /\ TrBatchSettled(batchI, Len(chunks))
    /\ LET n == Len(chunks)
           batch == Ascending(Batch(batchI, maxConcurrentTranscriptions, n))
           batchResults == [b \in 1..Len(batch) |-> Adjusted(chunks[batch[b]])]
           stored == {b \in 1..Len(batch) : ResultPosition(batchI, b) \in 1..n}
           next == batchI + maxConcurrentTranscriptions
       IN  /\ transcriptions' =
                 [j \in 1..n |->
                     IF \E b \in stored : ResultPosition(batchI, b) = j
                     THEN batchResults[CHOOSE b \in stored :
                                          ResultPosition(batchI, b) = j]
                     ELSE transcriptions[j]]
           /\ batchI' = next
           /\ tr' = LaunchedTr(tr, next, n)
           /\ trLaunched' = trLaunched \o
                 Ascending(Batch(next, maxConcurrentTranscriptions, n))
    /\ UNCHANGED <<requestVars, orderVars, response, db, video, pc, runsStarted,
                   planVars, ext, chunks, extLaunched, stageLog, failedStage,
                   fileVars, blobs>>

\* lines 357, 190-202: the loop is over; the transcriptions are combined,
\* the combined file is written (writeFileSync may throw) and the
\* burn-in tool is started on the original upload
TranscribeReturns ==
    /\ pc = "transcribe"
    /\ ~(batchI < Len(chunks))
    /\ \E outcome \in CallOutcomes :
          IF outcome = "ok"
          THEN /\ files' = files \cup {combinedSrtPath}
               /\ created' = created \cup {combinedSrtPath}
               /\ bgTempFiles' = Append(bgTempFiles, combinedSrtPath)
               /\ stageLog' = stageLog \o <<"merge", "burn">>
               /\ pc' = "burn"
               /\ UNCHANGED <<video, failedStage>>
          ELSE /\ EnterCatch("write")
               /\ stageLog' = Append(stageLog, "merge")
               /\ UNCHANGED <<files, created, bgTempFiles>>
    /\ UNCHANGED <<requestVars, orderVars, response, db, runsStarted, planVars, taskVars,
                   attempted, unlinkFailed, blobs>>

(***************************************************************************)
(* Burn-in, upload, record update                                          *)
(***************************************************************************)
\* the file the final upload reads
UploadedPath == finalVideoPath

\* lines 202-208, part_001 17-27: the burn-in tool returns the path of
\* the file it wrote; it is pushed to bgTempFiles and s3.upload is issued
BurnReturns ==
    /\ pc = "burn"
    /\ \E outcome \in ToolOutcomes :
          /\ Possible(outcome, {videoPath, combinedSrtPath})
          /\ CASE outcome = "ok" ->
                    /\ files' = files \cup {finalVideoPath}
                    /\ created' = created \cup {finalVideoPath}
                    /\ bgTempFiles' = Append(bgTempFiles, finalVideoPath)
                    /\ stageLog' = Append(stageLog, "upload")
                    /\ pc' = "s3Video"
                    /\ UNCHANGED <<video, failedStage>>
               [] outcome = "fail" ->
                    /\ EnterCatch("burn")
                    /\ UNCHANGED <<files, created, bgTempFiles, stageLog>>
               [] outcome = "hang" ->
                    /\ pc' = "hung"
                    /\ UNCHANGED <<video, failedStage, files, created, bgTempFiles,
                                   stageLog>>
    /\ UNCHANGED <<requestVars, orderVars, response, db, runsStarted, planVars, taskVars,
                   attempted, unlinkFailed, blobs>>

\* the document fields assigned at lines 220-223
Processed(videoS3Url, thumbnailS3Url) ==
    [status |-> "processed", videoUrl |-> videoS3Url,
     thumbnailUrl |-> thumbnailS3Url,
     subtitles |-> combineSubtitles(transcriptions)]

\* part_001 27-29: s3.upload of the final video returns; unlinkFile of
\* the local file is issued
S3VideoReturns ==
    /\ pc = "s3Video"
    /\ \E outcome \in ToolOutcomes :
          /\ Possible(outcome, {UploadedPath})
          /\ CASE outcome = "ok" ->
                    /\ blobs' = blobs \cup {Location("videos", UploadedPath)}
                    /\ pc' = "unlinkVideo"
                    /\ UNCHANGED <<video, failedStage>>
               [] outcome = "fail" ->
                    /\ EnterCatch("upload")
                    /\ UNCHANGED blobs
               [] outcome = "hang" ->
                    /\ pc' = "hung"
                    /\ UNCHANGED <<video, failedStage, blobs>>
    /\ UNCHANGED <<requestVars, orderVars, response, db, runsStarted, planVars, taskVars,
                   stageLog, fileVars>>

\* part_001 29-34, lines 208-224: unlinkFile of the uploaded local file
\* returns; a failure is rethrown by uploadToS3. On success the thumbnail
\* upload is issued if there is one, else the fields are assigned and
\* video.save() is issued
UnlinkVideoReturns ==
    /\ pc = "unlinkVideo"
    /\ attempted' = attempted \cup {UploadedPath}
    /\ \E outcome \in CallOutcomes :
          /\ Possible(outcome, {UploadedPath})
          /\ IF outcome = "ok"
             THEN /\ files' = files \ {UploadedPath}
                  /\ IF hasThumbnail
                     THEN /\ pc' = "s3Thumbnail"
                          /\ UNCHANGED video
                     ELSE /\ pc' = "saveProcessed"
                          /\ video' = Processed(Location("videos", UploadedPath),
                                                NullUrl)
                  /\ UNCHANGED failedStage
             ELSE /\ EnterCatch("upload")
                  /\ UNCHANGED files
    /\ UNCHANGED <<requestVars, orderVars, response, db, runsStarted, planVars, taskVars,
                   stageLog, created, bgTempFiles, unlinkFailed, blobs>>

\* part_001 27-29: s3.upload of the thumbnail returns
S3ThumbnailReturns ==
    /\ pc = "s3Thumbnail"
    /\ \E outcome \in ToolOutcomes :
          /\ Possible(outcome, {thumbnailPath})
          /\ CASE outcome = "ok" ->
                    /\ blobs' = blobs \cup {Location("thumbnails", thumbnailPath)}
                    /\ pc' = "unlinkThumbnail"
                    /\ UNCHANGED <<video, failedStage>>
               [] outcome = "fail" ->
                    /\ EnterCatch("thumbnail")
                    /\ UNCHANGED blobs
               [] outcome = "hang" ->
                    /\ pc' = "hung"
                    /\ UNCHANGED <<video, failedStage, blobs>>
    /\ UNCHANGED <<requestVars, orderVars, response, db, runsStarted, planVars, taskVars,
                   stageLog, fileVars>>

\* part_001 29-34, lines 216-224: unlinkFile of the thumbnail returns;
\* on success the fields are assigned and video.save() is issued
UnlinkThumbnailReturns ==
    /\ pc = "unlinkThumbnail"
    /\ attempted' = attempted \cup {thumbnailPath}
    /\ \E outcome \in CallOutcomes :
          /\ Possible(outcome, {thumbnailPath})
          /\ IF outcome = "ok"
             THEN /\ files' = files \ {thumbnailPath}
                  /\ pc' = "saveProcessed"
                  /\ video' = Processed(Location("videos", UploadedPath),
                                        Location("thumbnails", thumbnailPath))
                  /\ UNCHANGED failedStage
             ELSE /\ EnterCatch("thumbnail")
                  /\ UNCHANGED files
    /\ UNCHANGED <<requestVars, orderVars, response, db, runsStarted, planVars, taskVars,
                   stageLog, created, bgTempFiles, unlinkFailed, blobs>>


\* lines 224-227: video.save() of the processed document returns; on
\* success cleanupFiles(bgTempFiles) is issued
SaveProcessedReturns ==
    /\ pc = "saveProcessed"
    /\ \E outcome \in CallOutcomes :
          IF outcome = "ok"
          THEN /\ db' = video
               /\ stageLog' = Append(stageLog, "processed")
               /\ pc' = "cleanup"
               /\ UNCHANGED <<video, failedStage>>
          ELSE /\ EnterCatch("save")
               /\ UNCHANGED <<db, stageLog>>
    /\ UNCHANGED <<requestVars, orderVars, response, runsStarted, planVars, taskVars, fileVars,
                   blobs>>

\* lines 227-230: cleanupFiles(bgTempFiles) returns and the task ends
CleanupReturns ==
    /\ pc = "cleanup"
    /\ \E F \in UnlinkFailures(bgTempFiles) :
          /\ cleanupFiles(bgTempFiles, F)
          /\ IF cleanupFilesThrows(F)
             THEN EnterCatch("cleanup")
             ELSE /\ pc' = "done"
                  /\ UNCHANGED <<video, failedStage>>
    /\ UNCHANGED <<requestVars, orderVars, response, db, runsStarted, planVars, taskVars,
                   stageLog, created, bgTempFiles, blobs>>

\* lines 235-236: video.save() of the failed document returns; on
\* success cleanupFiles(bgTempFiles) is issued, a failure is a rejection
\* nothing handles
SaveFailedReturns ==
    /\ pc = "saveFailed"
    /\ \E outcome \in CallOutcomes :
          IF outcome = "ok"
          THEN /\ db' = video
               /\ pc' = "cleanupFailed"
          ELSE /\ pc' = "rejected"
               /\ UNCHANGED db
    /\ UNCHANGED <<requestVars, orderVars, response, video, runsStarted, planVars, taskVars,
                   stageLog, failedStage, fileVars, blobs>>

\* lines 236-237: cleanupFiles(bgTempFiles) of the catch block returns
CleanupFailedReturns ==
    /\ pc = "cleanupFailed"
    /\ \E F \in UnlinkFailures(bgTempFiles) :
          /\ cleanupFiles(bgTempFiles, F)
          /\ pc' = IF cleanupFilesThrows(F) THEN "rejected" ELSE "done"
    /\ UNCHANGED <<requestVars, orderVars, response, db, video, runsStarted, planVars,
                   taskVars, stageLog, failedStage, created, bgTempFiles, blobs>>

(***************************************************************************)
(* Specification of one upload                                             *)
(***************************************************************************)
HandlerNext ==
    \/ HandlerStart
    \/ InitialSaveReturns
    \/ HandlerCleanupReturns

TaskNext ==
    \/ \E k \in DOMAIN ext : ExtCutReturns(k)
    \/ \E k \in DOMAIN ext : ExtAudioReturns(k)
    \/ \E k \in DOMAIN tr : TrWhisperReturns(k)
    \/ \E k \in DOMAIN tr : TrReadReturns(k)

BackgroundNext ==
    \/ BackgroundStart
    \/ ProbeReturns
    \/ ExtractBatchDone
    \/ ExtractReturns
    \/ TranscribeBatchDone
    \/ TranscribeReturns
    \/ BurnReturns
    \/ S3VideoReturns
    \/ UnlinkVideoReturns
    \/ S3ThumbnailReturns
    \/ UnlinkThumbnailReturns
    \/ SaveProcessedReturns
    \/ CleanupReturns
    \/ SaveFailedReturns
    \/ CleanupFailedReturns

Next == HandlerNext \/ TaskNext \/ BackgroundNext

Spec == Init /\ [][Next]_vars

(***************************************************************************)
(* Specification of the planner alone: the probed duration is drawn from   *)
(* PlanDurations and the chunkTasks loop is applied to it                  *)
(***************************************************************************)
PlanDurations ==
    {Num(k * (ChunkMs \div 8) + f) :
        k \in 0..MaxDurationSteps, f \in {0, 1, MsPerSecond \div 2}}
    \cup {NaN, Num(0 - ChunkMs)}

PlanInit ==
    /\ hasVideo = TRUE
    /\ hasThumbnail = FALSE
    /\ pc = "plan"
    /\ totalDuration \in PlanDurations
    /\ files = {videoPath}
    /\ IdleRun
    /\ IdlePhase
    /\ IdleAuth
    /\ IdleText
    /\ IdleAdjust

PlanApply ==
    /\ pc = "plan"
    /\ chunkTasks' = PlanChunks(totalDuration)
    /\ pc' = "planned"
    /\ UNCHANGED <<requestVars, orderVars, response, db, video, runsStarted, totalDuration,
                   taskVars, stageLog, failedStage, fileVars, blobs>>

PlanSpec == PlanInit /\ [][PlanApply]_vars


(***************************************************************************)
(* Specification of two uploads whose background tasks run in one process  *)
(* and share the temp directory (tempDir is path.join(__dirname, "..",     *)
(* "temp") for every request): the temp paths each run writes              *)
(***************************************************************************)
uploadVars == <<response, db, video, pc, runsStarted, planVars, taskVars,
                stageLog, failedStage, orderVars, fileVars, blobs>>

ConcurrentInit ==
    /\ hasVideo = TRUE
    /\ hasThumbnail = FALSE
    /\ pc = "handler"
    /\ totalDuration = NaN
    /\ files = {}
    /\ IdleRun
    /\ IdlePhase
    /\ IdleAuth
    /\ IdleText
    /\ IdleAdjust

\* lines 124-143: multer has stored the upload of run r under its own name
\* and the run's pipeline plans its segments into the shared tempDir
RunStarts(r) ==
    /\ runPc[r] = "idle"
    /\ \E n \in 1..MaxRunChunks : runChunks' = [runChunks EXCEPT ![r] = n]
    /\ runPc' = [runPc EXCEPT ![r] = "extract"]
    /\ runWritten' = [runWritten EXCEPT ![r] = {uploadPathOf(r)}]
    /\ UNCHANGED <<hasVideo, hasThumbnail, phase, auth, uploadVars, textVars, adjustVars, runCut, runAudio, now>>

\* lines 281, 285: the ffmpeg cut of segment i of run r writes
\* chunk-${task.index}.mp4 in tempDir
RunCutReturns(r, i) ==
    /\ runPc[r] = "extract"
    /\ i \in 1..runChunks[r]
    /\ i \notin runCut[r]
    /\ \A j \in 1..BatchStart(i, maxConcurrentChunks) : j \in runAudio[r]
    /\ runCut' = [runCut EXCEPT ![r] = @ \cup {i}]
    /\ runWritten' = [runWritten EXCEPT ![r] = @ \cup {chunkVideoPath(i)}]
    /\ UNCHANGED <<hasVideo, hasThumbnail, phase, auth, uploadVars, textVars, adjustVars, runPc, runChunks,
                   runAudio, now>>

\* lines 282, 288: the audio extraction of segment i of run r writes
\* chunk-${task.index}.wav in tempDir
RunAudioReturns(r, i) ==
    /\ runPc[r] = "extract"
    /\ i \in runCut[r] \ runAudio[r]
    /\ runAudio' = [runAudio EXCEPT ![r] = @ \cup {i}]
    /\ runWritten' = [runWritten EXCEPT ![r] = @ \cup {chunkAudioPath(i)}]
    /\ UNCHANGED <<hasVideo, hasThumbnail, phase, auth, uploadVars, textVars, adjustVars, runPc, runChunks, runCut,
                   now>>

\* lines 194-196: every segment of run r is extracted and transcribed; the
\* combined subtitles are written to combined-${Date.now()}.srt
RunWritesCombined(r) ==
    /\ runPc[r] = "extract"
    /\ runAudio[r] = 1..runChunks[r]
    /\ runPc' = [runPc EXCEPT ![r] = "merged"]
    /\ runWritten' = [runWritten EXCEPT ![r] = @ \cup {combinedSrtPathAt(now)}]
    /\ UNCHANGED <<hasVideo, hasThumbnail, phase, auth, uploadVars, textVars, adjustVars, runChunks, runCut,
                   runAudio, now>>

\* lines 227-230: the run is over
RunEnds(r) ==
    /\ runPc[r] = "merged"
    /\ runPc' = [runPc EXCEPT ![r] = "ended"]
    /\ UNCHANGED <<hasVideo, hasThumbnail, phase, auth, uploadVars, textVars, adjustVars, runChunks, runCut,
                   runAudio, runWritten, now>>

\* a millisecond passes
Tick ==
    /\ now < MaxClock
    /\ now' = now + 1
    /\ UNCHANGED <<hasVideo, hasThumbnail, phase, auth, uploadVars, textVars, adjustVars, runPc, runChunks, runCut,
                   runAudio, runWritten>>

ConcurrentNext ==
    \/ \E r \in Runs : RunStarts(r)
    \/ \E r \in Runs : \E i \in 1..MaxRunChunks : RunCutReturns(r, i)
    \/ \E r \in Runs : \E i \in 1..MaxRunChunks : RunAudioReturns(r, i)
    \/ \E r \in Runs : RunWritesCombined(r)
    \/ \E r \in Runs : RunEnds(r)
    \/ Tick

ConcurrentSpec == ConcurrentInit /\ [][ConcurrentNext]_vars


(***************************************************************************)
(* Specification of the subtitle functions alone: the subtitle files of    *)
(* up to MaxSegments consecutive segments are adjusted as transcribeChunk  *)
(* does and combined as the background task does                           *)
(***************************************************************************)
CueHi ==
    Cue(1, Time(0, 0, 0, 0), Time(0, 0, 2, 0), <<TextLine("Hi")>>, TRUE)
CueBye ==
    Cue(1, Time(0, 0, 0, 0), Time(0, 0, 1, 500), <<TextLine("Bye")>>, TRUE)
\* two cues one millisecond apart
CueFirst ==
    Cue(1, Time(0, 0, 1, 0), Time(0, 0, 1, 1), <<TextLine("first")>>, TRUE)
CueSecond ==
    Cue(2, Time(0, 0, 1, 1), Time(0, 0, 2, 0), <<TextLine("second")>>, TRUE)
\* a cue whose text is the line "42"
CueDigits ==
    Cue(1, Time(0, 0, 3, 0), Time(0, 0, 4, 0), <<IndexLine(42)>>, TRUE)
\* a cue of two text lines whose index does not start at 1
CueTwoLines ==
    Cue(7, Time(0, 0, 4, 240), Time(0, 0, 59, 999),
        <<TextLine("two"), TextLine("lines")>>, TRUE)
CueMalformed ==
    Cue(1, Time(0, 0, 1, 0), Time(0, 0, 2, 0), <<TextLine("Hi")>>, FALSE)

SegmentCues ==
    {<<>>, <<CueHi>>, <<CueBye>>, <<CueFirst, CueSecond>>, <<CueDigits>>,
     <<CueHi, CueTwoLines>>, <<CueMalformed>>}

\* chunk.startTime of the segment at position j, in seconds
OffsetOf(j) == (j - 1) * chunkDuration

TextInit ==
    /\ hasVideo = TRUE
    /\ hasThumbnail = FALSE
    /\ pc = "handler"
    /\ totalDuration = NaN
    /\ files = {}
    /\ IdleRun
    /\ IdlePhase
    /\ IdleAuth
    /\ IdleAdjust
    /\ textPc = "raw"
    /\ \E n \in 1..MaxSegments : textIn \in [1..n -> SegmentCues]
    /\ textAdjusted = <<>>
    /\ textOut = <<>>

\* lines 326-333: every segment's file is read and adjusted by the start
\* time of its segment
TextAdjust ==
    /\ textPc = "raw"
    /\ textAdjusted' =
          [j \in 1..Len(textIn) |->
              adjustSubtitlesTiming(SrtText(textIn[j]), ToDouble(OffsetOf(j)))]
    /\ textPc' = "adjusted"
    /\ UNCHANGED <<hasVideo, hasThumbnail, phase, auth, uploadVars, runVars, adjustVars, textIn,
                   textOut>>

\* line 194: the adjusted texts are combined
TextCombine ==
    /\ textPc = "adjusted"
    /\ textOut' = combineSubtitles(textAdjusted)
    /\ textPc' = "merged"
    /\ UNCHANGED <<hasVideo, hasThumbnail, phase, auth, uploadVars, runVars, adjustVars, textIn,
                   textAdjusted>>

TextNext == TextAdjust \/ TextCombine

TextSpec == TextInit /\ [][TextNext]_vars

(***************************************************************************)
(* Specification of the timestamp arithmetic alone: a timestamp is         *)
(* adjusted by d1 and the result by d2, by d1 + d2, and by a negative      *)
(* offset                                                                  *)
(***************************************************************************)
AdjustTimes ==
    {Time(0, 0, 0, 0), Time(0, 0, 0, 3), Time(0, 0, 1, 1), Time(0, 0, 1, 500),
     Time(0, 0, 59, 999)}

\* 0, 1, 2 and 60 seconds, half a second and half a millisecond
AdjustDeltas ==
    {ToDouble(0), ToDouble(1), ToDouble(2), ToDouble(chunkDuration),
     Divide(1, 2), Divide(1, 2 * MsPerSecond)}

\* whole seconds by which a timestamp is moved back (offsetSeconds = -k)
BackSeconds == {0, 2, chunkDuration + 1}

AdjustInit ==
    /\ hasVideo = TRUE
    /\ hasThumbnail = FALSE
    /\ pc = "handler"
    /\ totalDuration = NaN
    /\ files = {}
    /\ IdleRun
    /\ IdlePhase
    /\ IdleAuth
    /\ IdleText
    /\ adjPc = "input"
    /\ adjIn \in [t : AdjustTimes, d1 : AdjustDeltas, d2 : AdjustDeltas,
                 back : BackSeconds]
    /\ adjOut = [twice |-> NoTime, once |-> NoTime, backward |-> NoTime]

\* lines 383-403, applied to the timestamp it formatted, to the sum of
\* the offsets, and with a negative offset
AdjustApply ==
    /\ adjPc = "input"
    /\ adjOut' = [twice |-> AdjustTime(AdjustTime(adjIn.t, adjIn.d1), adjIn.d2),
                  once |-> AdjustTime(adjIn.t, Plus(adjIn.d1, adjIn.d2)),
                  backward |-> AdjustTimeBack(adjIn.t, adjIn.back)]
    /\ adjPc' = "done"
    /\ UNCHANGED <<hasVideo, hasThumbnail, phase, auth, uploadVars, runVars, textVars, adjIn>>

AdjustSpec == AdjustInit /\ [][AdjustApply]_vars


(***************************************************************************)
(* Specification of a batch loop alone (lines 299-306, 341-355) with the   *)
(* limit as an input: the limits of the two phases and the limit 1         *)
(***************************************************************************)
PhaseLimits == {1, maxConcurrentTranscriptions, maxConcurrentChunks}

\* a slice that takes one task too many
PhaseBatchOffByOne(p, i) == Batch(i, p.limit + 1, Len(p.task))

\* list.slice(i, i + limit)
PhaseBatch(p, i) == Batch(i, p.limit, Len(p.task))

\* batch.map(task): the tasks of the batch at i are started in list order
PhaseLaunch(p, i) ==
    [p EXCEPT !.i = i,
              !.task = [k \in DOMAIN p.task |->
                           IF k \in PhaseBatch(p, i) THEN "running" ELSE p.task[k]],
              !.launched = p.launched \o Ascending(PhaseBatch(p, i))]

PhaseInit ==
    /\ hasVideo = TRUE
    /\ hasThumbnail = FALSE
    /\ pc = "handler"
    /\ totalDuration = NaN
    /\ files = {}
    /\ IdleRun
    /\ IdleText
    /\ IdleAdjust
    /\ IdleAuth
    /\ \E limit \in PhaseLimits : \E n \in 1..MaxChunks :
          phase = PhaseLaunch([pc |-> "loop", limit |-> limit, i |-> 0,
                               task |-> [k \in 1..n |-> "idle"],
                               launched |-> <<>>, results |-> <<>>,
                               error |-> 0], 0)

\* a task of the loop is fulfilled or rejects; Promise.all of the awaited
\* batch rejects with the first rejection and the loop's function throws it
PhaseTaskReturns(k) ==
    /\ phase.task[k] = "running"
    /\ \E outcome \in CallOutcomes :
          IF outcome = "ok"
          THEN phase' = [phase EXCEPT !.task[k] = "done"]
          ELSE IF phase.pc = "loop"
          THEN phase' = [phase EXCEPT !.task[k] = "failed", !.error = k,
                                      !.pc = "thrown"]
          ELSE phase' = [phase EXCEPT !.task[k] = "failed"]
    /\ UNCHANGED <<hasVideo, hasThumbnail, auth, uploadVars, runVars, textVars,
                   adjustVars>>

\* the awaited batch is fulfilled: its results are pushed in the order of
\* the batch, and the loop starts the next batch or returns
PhaseBatchDone ==
    /\ phase.pc = "loop"
    /\ \A k \in PhaseBatch(phase, phase.i) : phase.task[k] = "done"
    /\ LET pushed == [phase EXCEPT
                         !.results = @ \o Ascending(PhaseBatch(phase, phase.i))]
           next == phase.i + phase.limit
       IN  IF next < Len(phase.task)
           THEN phase' = PhaseLaunch(pushed, next)
           ELSE phase' = [pushed EXCEPT !.i = next, !.pc = "returned"]
    /\ UNCHANGED <<hasVideo, hasThumbnail, auth, uploadVars, runVars, textVars,
                   adjustVars>>

PhaseNext ==
    \/ \E k \in 1..MaxChunks : k \in DOMAIN phase.task /\ PhaseTaskReturns(k)
    \/ PhaseBatchDone

PhaseSpec == PhaseInit /\ [][PhaseNext]_vars


(***************************************************************************)
(* Specification of the refresh-token routes of routes/auth.js             *)
(***************************************************************************)
AuthInit ==
    /\ hasVideo = TRUE
    /\ hasThumbnail = FALSE
    /\ pc = "handler"
    /\ totalDuration = NaN
    /\ files = {}
    /\ IdleRun
    /\ IdleText
    /\ IdleAdjust
    /\ IdlePhase
    /\ IdleAuth

\* lines 21-29: the token for the user is signed, added to the store and
\* returned
generateRefreshToken(a, userId) ==
    [a EXCEPT !.refreshTokens = @ \cup {SignedToken(userId, a.clock)},
              !.lastEvent[SignedToken(userId, a.clock)] = "issued"]

\* lines 32-62: POST /signup; validation, the e-mail check, the hash or
\* the save may reject the request
AuthSignup(userId) ==
    /\ \E outcome \in CallOutcomes :
          IF outcome = "ok"
          THEN auth' = [generateRefreshToken(auth, userId) EXCEPT
                           !.response = [op |-> "signup",
                                         token |-> SignedToken(userId, auth.clock),
                                         status |-> "201"]]
          ELSE auth' = [auth EXCEPT
                           !.response = [op |-> "signup", token |-> NoToken,
                                         status |-> "400"]]
    /\ UNCHANGED <<hasVideo, hasThumbnail, phase, uploadVars, runVars, textVars,
                   adjustVars>>

\* lines 65-91: POST /login
AuthLogin(userId) ==
    /\ \E outcome \in CallOutcomes :
          IF outcome = "ok"
          THEN auth' = [generateRefreshToken(auth, userId) EXCEPT
                           !.response = [op |-> "login",
                                         token |-> SignedToken(userId, auth.clock),
                                         status |-> "200"]]
          ELSE auth' = [auth EXCEPT
                           !.response = [op |-> "login", token |-> NoToken,
                                         status |-> "400"]]
    /\ UNCHANGED <<hasVideo, hasThumbnail, phase, uploadVars, runVars, textVars,
                   adjustVars>>

\* a check that forgets the store
KnownTokenAny(tokens, refreshToken) == refreshToken # NoToken

\* line 96: refreshToken && refreshTokens.has(refreshToken)
KnownToken(tokens, refreshToken) ==
    refreshToken # NoToken /\ refreshToken \in tokens

\* lines 94-111: POST /token; jwt.verify rejects a token that is expired
\* or not signed with the secret
AuthToken(refreshToken) ==
    /\ \E verified \in BOOLEAN :
          /\ verified => refreshToken.signed
          /\ auth' = [auth EXCEPT
                !.response =
                    [op |-> "token", token |-> refreshToken,
                     status |-> IF KnownToken(auth.refreshTokens, refreshToken)
                                   /\ verified
                                THEN "200" ELSE "403"]]
    /\ UNCHANGED <<hasVideo, hasThumbnail, phase, uploadVars, runVars, textVars,
                   adjustVars>>

\* line 117: refreshTokens.delete(refreshToken)
DeleteToken(tokens, refreshToken) == tokens \ {refreshToken}

\* lines 114-120: POST /logout
AuthLogout(refreshToken) ==
    /\ auth' = [auth EXCEPT
          !.refreshTokens = IF refreshToken # NoToken
                            THEN DeleteToken(@, refreshToken) ELSE @,
          !.lastEvent[refreshToken] = "loggedOut",
          !.response = [op |-> "logout", token |-> refreshToken,
                        status |-> "200"]]
    /\ UNCHANGED <<hasVideo, hasThumbnail, phase, uploadVars, runVars, textVars,
                   adjustVars>>

\* a second passes: tokens signed from now on carry the next iat
AuthSecondPasses ==
    /\ auth.clock < MaxIssueSeconds
    /\ auth' = [auth EXCEPT !.clock = @ + 1]
    /\ UNCHANGED <<hasVideo, hasThumbnail, phase, uploadVars, runVars, textVars,
                   adjustVars>>

AuthNext ==
    \/ \E userId \in Users : AuthSignup(userId)
    \/ \E userId \in Users : AuthLogin(userId)
    \/ \E refreshToken \in RequestTokens : AuthToken(refreshToken)
    \/ \E refreshToken \in RequestTokens : AuthLogout(refreshToken)
    \/ AuthSecondPasses

AuthSpec == AuthInit /\ [][AuthNext]_vars


(***************************************************************************)
(* Properties                                                              *)
(***************************************************************************)
\* the stages of the processing body whose error reaches the catch block
PipelineStages ==
    {"probe", "extract", "transcribe", "write", "burn", "upload", "thumbnail",
     "save"}
InFlightExt == {k \in DOMAIN ext : ext[k] \in {"cut", "audio", "hung"}}
InFlightTr == {k \in DOMAIN tr : tr[k] \in {"whisper", "read", "hung"}}
IsPrefix(s, t) == Len(s) <= Len(t) /\ s = SubSeq(t, 1, Len(s))

\* C1: when a stage of the background task has failed and the failure
\* path has run to its end, the persisted status is "failed" and the
\* persisted videoUrl and subtitles are still unset (null, '').
C1_FailedRunWritesNoPartialResult ==
    (failedStage \in PipelineStages /\ pc = "done") =>
        /\ db.status = "failed"
        /\ db.videoUrl = NullUrl
        /\ db.subtitles = <<>>

\* C2: the persisted status is processing, processed or failed; it only
\* changes from processing to processed or from processing to failed
\* (after the record's creation); a terminal status never changes; the
\* background callback of a Job starts once, and has started exactly once
\* when the status is terminal.
C2_StatusTransitions ==
    [][/\ db'.status \in {"absent", "processing", "processed", "failed"}
       /\ db.status # db'.status =>
             <<db.status, db'.status>> \in
                {<<"absent", "processing">>, <<"processing", "processed">>,
                 <<"processing", "failed">>}
       /\ runsStarted' <= 1
       /\ db'.status \in {"processed", "failed"} => runsStarted' = 1]_vars

C2_Witness ==
    /\ db.status = "failed"
    /\ pc = "done"
    /\ runsStarted = 1

\* C3: the persisted videoUrl and subtitles are set only if the persisted
\* status is "processed"; when it is "processed", videoUrl is the location
\* the upload of the burned-in file returned and subtitles is the
\* combination of this run's transcriptions.
C3_ResultOnlyWhenProcessed ==
    /\ db.status # "processed" =>
          db.videoUrl = NullUrl /\ db.subtitles = <<>>
    /\ db.status = "processed" =>
          /\ db.videoUrl = Location("videos", finalVideoPath)
          /\ db.videoUrl \in blobs
          /\ finalVideoPath \in created
          /\ db.subtitles = combineSubtitles(transcriptions)

\* C4: the record is created with status processing and the 202 is sent
\* before the background task issues its first stage; the response, once
\* sent, never changes, whatever the pipeline does afterwards.
C4_ResponseBeforePipeline ==
    [][/\ runsStarted' > 0 => response' = "202"
       /\ (response = "none" /\ response' = "202") =>
             /\ db'.status = "processing"
             /\ runsStarted' = 0
             /\ stageLog' = <<>>
       /\ response # "none" => response' = response]_vars

C4_Witness ==
    /\ response = "202"
    /\ failedStage = "transcribe"
    /\ pc = "done"

\* C5: the stages begin in the order plan, extract, transcribe, merge,
\* burn-in, upload, processed; no transcribeChunk task is launched unless
\* every processChunk task is done; merge begins only when every
\* transcribeChunk task is done, the upload only when the burn-in wrote its
\* file; the status is processed only if every planned segment was
\* extracted and transcribed.
C5_StageOrder ==
    /\ IsPrefix(stageLog, <<"plan", "extract", "transcribe", "merge", "burn",
                            "upload", "processed">>)
    /\ (\E k \in DOMAIN tr : tr[k] # "idle") =>
          \A j \in DOMAIN ext : ext[j] = "done"
    /\ Len(stageLog) >= 3 =>
          /\ \A j \in DOMAIN ext : ext[j] = "done"
          /\ Len(chunks) = NumChunks
    /\ Len(stageLog) >= 4 => \A k \in DOMAIN tr : tr[k] = "done"
    /\ Len(stageLog) >= 5 => combinedSrtPath \in created
    /\ Len(stageLog) >= 6 => finalVideoPath \in created
    /\ Len(stageLog) >= 7 => Location("videos", finalVideoPath) \in blobs
    /\ db.status = "processed" =>
          /\ Len(stageLog) = 7
          /\ \A k \in 1..NumChunks :
                /\ ext[k] = "done"
                /\ tr[k] = "done"
                /\ transcriptions[k] = Adjusted(ChunkResult(chunkTasks[k]))

C5_Witness ==
    /\ db.status = "processed"
    /\ NumChunks = MaxChunks

\* C6: when the run has ended, an unlink has been issued for every file
\* the run created and for the original upload copy.
C6_AllArtifactsCleaned ==
    pc = "done" => (created \cup {videoPath}) \subseteq attempted

C8_ProcessingJobProgresses ==
    (response = "202" /\ db.status = "processing") =>
        ENABLED (BackgroundNext \/ TaskNext)

\* C9: for every probed duration > 0 the planned list has
\* ceil(totalDuration / chunkDuration) segments, segment i has index i and
\* spans [(i-1) * chunkDuration, min(i * chunkDuration, totalDuration)),
\* consecutive segments are contiguous, the first starts at 0 and the
\* last ends at totalDuration.
C9_PlanCoversDuration ==
    (pc = "planned" /\ ~totalDuration.nan /\ totalDuration.v > 0) =>
        LET total == totalDuration.v
            n == Len(chunkTasks)
        IN  /\ n = (total + ChunkMs - 1) \div ChunkMs
            /\ \A i \in 1..n :
                  /\ chunkTasks[i].index = i
                  /\ chunkTasks[i].startTime = (i - 1) * ChunkMs
                  /\ chunkTasks[i].endTime = Min(i * ChunkMs, total)
                  /\ chunkTasks[i].startTime < chunkTasks[i].endTime
                  /\ chunkTasks[i].duration =
                        chunkTasks[i].endTime - chunkTasks[i].startTime
            /\ \A i \in 1..(n - 1) :
                  chunkTasks[i].endTime = chunkTasks[i + 1].startTime
            /\ chunkTasks[1].startTime = 0
            /\ chunkTasks[n].endTime = total

C9_Witness ==
    /\ pc = "planned"
    /\ totalDuration = Num(150 * MsPerSecond)
    /\ Len(chunkTasks) = 3
    /\ chunkTasks[3].startTime = 120 * MsPerSecond
    /\ chunkTasks[3].endTime = 150 * MsPerSecond

\* C10: the tasks of each phase are launched in index order, and at most
\* maxConcurrentChunks processChunk tasks and at most
\* maxConcurrentTranscriptions transcribeChunk tasks are launched and not
\* completed, also after a task of the phase has failed.
C10_BoundedInFlight ==
    /\ \A j \in DOMAIN extLaunched : extLaunched[j] = j
    /\ \A j \in DOMAIN trLaunched : trLaunched[j] = j
    /\ \A k \in DOMAIN ext : ext[k] # "idle" <=> k \in Range(extLaunched)
    /\ \A k \in DOMAIN tr : tr[k] # "idle" <=> k \in Range(trLaunched)
    /\ Cardinality(InFlightExt) <= maxConcurrentChunks
    /\ Cardinality(InFlightTr) <= maxConcurrentTranscriptions

C10_Witness ==
    /\ NumChunks > maxConcurrentChunks
    /\ \E k \in DOMAIN ext : ext[k] = "failed"
    /\ Cardinality(InFlightExt) = maxConcurrentChunks - 1
    /\ ext[NumChunks] = "idle"

ExtFailed == {k \in DOMAIN ext : ext[k] = "failed"}
TrFailed == {k \in DOMAIN tr : tr[k] = "failed"}

\* C11: whatever the order in which the tasks of a phase complete,
\* position i of the result list holds the result of task i: chunks is in
\* ascending index order, every stored transcriptions[i] is the adjusted
\* text of chunks[i], and the merge gets the texts in ascending index
\* order.
C11_ResultsAlignedWithTasks ==
    /\ \A j \in DOMAIN chunks :
          /\ chunks[j] = ChunkResult(chunkTasks[j])
          /\ chunks[j].index = j
    /\ \A j \in DOMAIN transcriptions :
          /\ transcriptions[j] # Undefined =>
                transcriptions[j] = Adjusted(chunks[j])
          /\ (j <= batchI \/ "merge" \in Range(stageLog)) =>
                transcriptions[j] # Undefined
    /\ video.status = "processed" =>
          video.subtitles =
             combineSubtitles([j \in 1..NumChunks |->
                                  Adjusted(ChunkResult(chunkTasks[j]))])

C11_Witness ==
    /\ outOfOrder = {"extract", "transcribe"}
    /\ NumChunks = MaxChunks
    /\ db.status = "processed"

\* C12: when tasks of a phase have failed, the error that failed the phase
\* is the error of the failed task with the lowest index, whatever the
\* order in which the tasks failed.
C12_ErrorOfFirstFailedInLaunchOrder ==
    /\ failedStage = "extract" =>
          \A k \in ExtFailed : phaseError <= chunkTasks[k].index
    /\ failedStage = "transcribe" =>
          \A k \in TrFailed : phaseError <= chunks[k].index

\* C13: once a task of a phase has failed, no further task of the phase is
\* launched, no result of the phase is pushed or stored, no later stage
\* begins and the record gets no result; a task in flight is never
\* cancelled: its state changes only by its own steps, one task at a
\* time, and its next step stays possible.
C13_FailedPhaseStopsLaunching ==
    [][/\ ExtFailed # {} =>
             /\ extLaunched' = extLaunched
             /\ chunks' = chunks
             /\ trLaunched' = <<>>
       /\ TrFailed # {} =>
             /\ trLaunched' = trLaunched
             /\ transcriptions' = transcriptions
       /\ ExtFailed \cup TrFailed # {} =>
             /\ stageLog' = stageLog
             /\ db'.status # "processed"
             /\ db'.videoUrl = NullUrl
             /\ db'.subtitles = <<>>
       /\ \A k \in DOMAIN ext \cap DOMAIN ext' :
             /\ ext[k] = "cut" =>
                   /\ ext'[k] \in {"cut", "audio", "failed", "hung"}
                   /\ ENABLED ExtCutReturns(k)
             /\ ext[k] = "audio" =>
                   /\ ext'[k] \in {"audio", "done", "failed", "hung"}
                   /\ ENABLED ExtAudioReturns(k)
       /\ \A k \in DOMAIN tr \cap DOMAIN tr' :
             /\ tr[k] = "whisper" =>
                   /\ tr'[k] \in {"whisper", "read", "failed", "hung"}
                   /\ ENABLED TrWhisperReturns(k)
             /\ tr[k] = "read" =>
                   /\ tr'[k] \in {"read", "done", "failed"}
                   /\ ENABLED TrReadReturns(k)
       /\ Cardinality({k \in DOMAIN ext \cap DOMAIN ext' :
                          ext[k] \in {"cut", "audio"} /\ ext'[k] # ext[k]}) <= 1
       /\ Cardinality({k \in DOMAIN tr \cap DOMAIN tr' :
                          tr[k] \in {"whisper", "read"} /\ tr'[k] # tr[k]}) <= 1]_vars

C13_Witness ==
    /\ pc = "done"
    /\ failedStage = "extract"
    /\ NumChunks > maxConcurrentChunks
    /\ ext[NumChunks] = "idle"
    /\ \E j \in DOMAIN ext : ext[j] = "audio"
    /\ db.status = "failed"

\* C19 as stated: while a phase runs, no task has failed and a task is not
\* yet launched, the number of tasks in flight is the phase's limit (a
\* task that completes is replaced at once).
C19_SlidingWindow ==
    /\ (pc = "extract" /\ \E k \in DOMAIN ext : ext[k] = "idle") =>
          Cardinality(InFlightExt) = maxConcurrentChunks
    /\ (pc = "transcribe" /\ \E k \in DOMAIN tr : tr[k] = "idle") =>
          Cardinality(InFlightTr) = maxConcurrentTranscriptions

\* C19: a task is launched only when every task of every earlier batch of
\* its phase is done: a task of a later batch is never in flight together
\* with a task of an earlier batch.
C19_NextBatchAfterWholeBatch ==
    /\ \A k \in DOMAIN ext : ext[k] # "idle" =>
          \A j \in 1..BatchStart(k, maxConcurrentChunks) : ext[j] = "done"
    /\ \A k \in DOMAIN tr : tr[k] # "idle" =>
          \A j \in 1..BatchStart(k, maxConcurrentTranscriptions) : tr[j] = "done"

C19_Witness ==
    /\ pc = "transcribe"
    /\ NumChunks > maxConcurrentTranscriptions
    /\ tr[maxConcurrentTranscriptions + 1] = "whisper"
    /\ outOfOrder = {"extract", "transcribe"}

\* the runs whose background task has started and not ended
ActiveRuns == {r \in Runs : runPc[r] \in {"extract", "merged"}}

\* C14: for any two runs active at the same time, the sets of temp file
\* paths they have written are disjoint.
C14_ConcurrentRunsWriteDisjointPaths ==
    \A r1 \in ActiveRuns : \A r2 \in ActiveRuns \ {r1} :
        runWritten[r1] \cap runWritten[r2] = {}

\* a timestamp as a number of milliseconds, and back
ToMs(t) ==
    (t.h * SecondsPerHour + t.m * SecondsPerMinute + t.s) * MsPerSecond + t.ms
FromMs(v) ==
    Time(v \div (SecondsPerHour * MsPerSecond),
         (v \div (SecondsPerMinute * MsPerSecond)) % SecondsPerMinute,
         (v \div MsPerSecond) % SecondsPerMinute,
         v % MsPerSecond)

\* every cue of every segment has an index line, a timestamp line and text
WellFormedInput ==
    \A j \in DOMAIN textIn : \A i \in DOMAIN textIn[j] : textIn[j][i].wellFormed

\* the number of cues of the segments before segment j
RECURSIVE CuesBefore(_)
CuesBefore(j) == IF j <= 1 THEN 0 ELSE CuesBefore(j - 1) + Len(textIn[j - 1])

\* cue i of segment j as the merged track should hold it: numbered by its
\* place among all cues, both times later by the segment's start offset
MergedCue(j, i) ==
    LET c == textIn[j][i]
    IN  Cue(CuesBefore(j) + i,
            FromMs(ToMs(c.start) + OffsetOf(j) * MsPerSecond),
            FromMs(ToMs(c.end) + OffsetOf(j) * MsPerSecond),
            c.text, c.wellFormed)

\* the lines of the segments from j on, their cues as MergedCue gives them
RECURSIVE MergedLinesFrom(_)
MergedLinesFrom(j) ==
    IF j > Len(textIn) THEN <<>>
    ELSE Split(SrtText([i \in 1..Len(textIn[j]) |-> MergedCue(j, i)]))
            \o MergedLinesFrom(j + 1)

MergedTrack == TrimText(MergedLinesFrom(1))

\* a line with its times left out of the comparison
WithoutTimes(line) == [line EXCEPT !.start = NoTime, !.end = NoTime]

\* C15: the combined text of segments of well-formed cues has exactly
\* their cues in input order, the index lines are 1, 2, ... without gap or
\* repeat, and every text line, a digit-only one included, is unchanged.
C15_MergeRenumbersAndKeepsText ==
    (textPc = "merged" /\ WellFormedInput) =>
        /\ Len(textOut) = Len(MergedTrack)
        /\ \A p \in DOMAIN textOut :
              WithoutTimes(textOut[p]) = WithoutTimes(MergedTrack[p])

\* the start of every cue is inside [0, chunkDuration) and the starts
\* of a segment's cues increase strictly
StartsInsideSegments ==
    \A j \in DOMAIN textIn :
        /\ \A i \in DOMAIN textIn[j] :
              ToMs(textIn[j][i].start) < chunkDuration * MsPerSecond
        /\ \A i \in 1..(Len(textIn[j]) - 1) :
              ToMs(textIn[j][i].start) < ToMs(textIn[j][i + 1].start)

\* C16: when every segment's cues start inside the segment, strictly
\* increasing, the cues of the combined text are strictly increasing by
\* start time, also across segment boundaries.
C16_MergedStartsIncrease ==
    (textPc = "merged" /\ WellFormedInput /\ StartsInsideSegments) =>
        \A p \in DOMAIN textOut : \A q \in DOMAIN textOut :
            (p < q /\ textOut[p].kind = "time" /\ textOut[q].kind = "time") =>
                ToMs(textOut[p].start) < ToMs(textOut[q].start)

\* C17: every cue of every segment is in the combined text with its start
\* and its end later by exactly the segment's start offset.
C17_TimesShiftedByOffset ==
    (textPc = "merged" /\ WellFormedInput) =>
        /\ Len(textOut) = Len(MergedTrack)
        /\ \A p \in DOMAIN textOut :
              MergedTrack[p].kind = "time" =>
                 /\ textOut[p].kind = "time"
                 /\ textOut[p].start = MergedTrack[p].start
                 /\ textOut[p].end = MergedTrack[p].end

\* C18: no combined text is produced from a segment text with a malformed
\* cue block: the merge fails instead.
C18_MalformedBlockFailsMerge ==
    textPc = "merged" => WellFormedInput

\* C20: adjusting a timestamp by d1 and the formatted result by d2 gives
\* the timestamp that adjusting by d1 + d2 gives.
C20_AdjustComposes ==
    adjPc = "done" => adjOut.twice = adjOut.once

\* C21: adjusting a text of well-formed cues by offset 0 (the first
\* segment's offset) returns it unchanged: every timestamp line is parsed
\* and formatted back to what it was.
C21_RoundTripAtOffsetZero ==
    (textPc \in {"adjusted", "merged"} /\ WellFormedInput) =>
        textAdjusted[1] = SrtText(textIn[1])

IsCueLine(line) == line.kind # "blank"
IsIndexLine(line) == line.kind = "digits"
IsNotEmpty(text) == text # <<>>

\* C23: a segment whose text is empty adds no cue, wherever it stands: the
\* combined text has the cue lines that the combination of the non-empty
\* texts alone has, with the same times, and its index lines are 1, 2, ...
\* without gap.
C23_EmptySegmentContributesNothing ==
    textPc = "merged" =>
        /\ SelectSeq(textOut, IsCueLine) =
              SelectSeq(combineSubtitles(SelectSeq(textAdjusted, IsNotEmpty)),
                        IsCueLine)
        /\ \A k \in DOMAIN SelectSeq(textOut, IsIndexLine) :
              SelectSeq(textOut, IsIndexLine)[k].n = k

C23_Witness ==
    /\ textPc = "merged"
    /\ Len(textIn) = MaxSegments
    /\ textIn[1] = <<CueHi>>
    /\ \A j \in 2..(MaxSegments - 1) : textIn[j] = <<>>
    /\ textIn[MaxSegments] = <<CueFirst, CueSecond>>
    /\ Len(SelectSeq(textOut, IsIndexLine)) = 3

\* C24: a batch loop with limit 1 runs its tasks one after the other in
\* list order: the tasks are started in the order 1, 2, ..., a task is
\* started only when every task before it is done, so at most one runs;
\* the results are those of tasks 1, 2, ... in that order, of all tasks
\* when the loop returns; when a task fails, the loop throws that task's
\* error, it is the only failed task, the results are those of the tasks
\* before it and no later task is ever started.
C24_LimitOneIsSequential ==
    phase.limit = 1 =>
        /\ \A j \in DOMAIN phase.launched : phase.launched[j] = j
        /\ \A k \in DOMAIN phase.task :
              /\ phase.task[k] # "idle" <=> k <= Len(phase.launched)
              /\ phase.task[k] # "idle" =>
                    \A j \in 1..(k - 1) : phase.task[j] = "done"
        /\ Cardinality({k \in DOMAIN phase.task : phase.task[k] = "running"}) <= 1
        /\ \A j \in DOMAIN phase.results :
              phase.results[j] = j /\ phase.task[j] = "done"
        /\ phase.pc = "returned" <=>
              /\ Len(phase.results) = Len(phase.task)
              /\ \A k \in DOMAIN phase.task : phase.task[k] = "done"
        /\ phase.pc = "thrown" <=> \E k \in DOMAIN phase.task : phase.task[k] = "failed"
        /\ phase.pc = "thrown" =>
              /\ phase.task[phase.error] = "failed"
              /\ Len(phase.launched) = phase.error
              /\ Len(phase.results) = phase.error - 1

C24_Witness ==
    /\ phase.limit = 1
    /\ Len(phase.task) = MaxChunks
    /\ phase.pc = "thrown"
    /\ phase.error = 2
    /\ phase.results = <<1>>
    /\ phase.task[3] = "idle"

\* C25: when the Job is failed and the cleanup of the run's temporary
\* files has been started or has run, no processChunk or transcribeChunk
\* task of the run is still in flight.
C25_CleanupAfterTasksSettled ==
    (db.status = "failed" /\ pc \in {"cleanupFailed", "done"}) =>
        /\ InFlightExt = {}
        /\ InFlightTr = {}

\* C26: the run gets to the merge, and the Job to status processed, only
\* if the planner produced at least one segment: a probed duration that
\* is not greater than 0 or not a number does not end in a processed Job.
C26_ProcessedNeedsASegment ==
    ("merge" \in Range(stageLog) \/ db.status = "processed") =>
        /\ NumChunks >= 1
        /\ LessThan(0, totalDuration)

\* C27: when the persisted status is failed, every object the run put into
\* the blob store is referenced by the record: no uploaded video or
\* thumbnail is left orphaned.
C27_FailedRunLeavesNoOrphan ==
    db.status = "failed" =>
        \A b \in blobs : b \in {db.videoUrl, db.thumbnailUrl}

\* C28: a refresh is answered 200 only for a token whose last event is its
\* issue by signup or login; a refresh with a token that was logged out
\* and not issued since is answered 403; and a logout removes no token
\* from the store but the one it names.
C28_RefreshOnlyForLiveToken ==
    [][/\ (auth'.response.op = "token" /\ auth'.response.status = "200") =>
             auth'.lastEvent[auth'.response.token] = "issued"
       /\ (auth'.response.op = "token"
             /\ auth'.lastEvent[auth'.response.token] # "issued") =>
             auth'.response.status = "403"
       /\ \A t \in RequestTokens :
             auth'.lastEvent[t] = "issued" <=> t \in auth'.refreshTokens
       /\ auth'.response.op = "logout" =>
             auth'.refreshTokens \cup {auth'.response.token} =
                auth.refreshTokens \cup {auth'.response.token}]_vars

C28_Witness ==
    /\ auth.response.op = "token"
    /\ auth.response.status = "403"
    /\ auth.response.token.signed
    /\ auth.lastEvent[auth.response.token] = "loggedOut"
    /\ Cardinality(auth.refreshTokens) >= 2

====
